---- MODULE Spec2Model ----
\* NLPProcessor of Campus Copilot (src/nlp_processor.py): intent classification
\* by mean cosine similarity with a zero-shot fallback, intent-conditioned
\* entity extraction, and the process_query orchestration.
\*
\* Strings are sequences of one-character strings, so that lower(), "in",
\* split() and strip() are computed and not assumed.  Cosine similarities are
\* integers in hundredths; a mean is kept as the exact fraction num/den.
EXTENDS Integers, Sequences, FiniteSets, TLC

VARIABLES
    intents,            \* self.intents: the catalog, in insertion order
    intent_embeddings,  \* self.intent_embeddings: per intent, its phrase vectors
    weights,            \* which sentence-embedding model was loaded
    zs,                 \* which zero-shot model was loaded
    ner,                \* which SpaCy pipeline was loaded
    op,                 \* the public method being served
    pc,                 \* position inside the call
    text,               \* argument text (index into Texts; 0 when none)
    max_similarity,     \* classify_intent local
    predicted_intent,   \* classify_intent local
    candidate,          \* the similarity candidate, as it was before the fallback
    fallback_calls,     \* number of self.classifier(...) invocations in this call
    intent,             \* process_query local / extract_entities argument
    entities,           \* process_query local
    result,             \* the returned value
    exception,          \* the exception that left the call, "" when none
    other,              \* the locals of a second caller's call, while it is
                        \* not the one taking steps
    main_pc,            \* position of the hosting program main.py ("none"
                        \* when the host is not modelled)
    loads,              \* number of NLPProcessor.__init__ runs (model loads)
    served,             \* number of process_query calls served to the host
    handler,            \* the locals and effects of a handle_message call
    users,              \* the rows of the users table
    starts              \* per /start handler, its position and locals

vars == <<intents, intent_embeddings, weights, zs, ner, op, pc, text,
          max_similarity, predicted_intent, candidate, fallback_calls,
          intent, entities, result, exception, other, main_pc, loads,
          served, handler, users, starts>>

-----------------------------------------------------------------------------
\* Python str operations

UpperAlpha ==
    <<"A", "B", "C", "D", "E", "F", "G", "H", "I", "J", "K", "L", "M",
      "N", "O", "P", "Q", "R", "S", "T", "U", "V", "W", "X", "Y", "Z">>

LowerAlpha ==
    <<"a", "b", "c", "d", "e", "f", "g", "h", "i", "j", "k", "l", "m",
      "n", "o", "p", "q", "r", "s", "t", "u", "v", "w", "x", "y", "z">>

IsUpper(c) == \E i \in DOMAIN UpperAlpha : UpperAlpha[i] = c

LowerChar(c) ==
    IF IsUpper(c)
    THEN LowerAlpha[CHOOSE i \in DOMAIN UpperAlpha : UpperAlpha[i] = c]
    ELSE c

\* str.lower()
Lower(s) == [i \in 1..Len(s) |-> LowerChar(s[i])]

\* str.find(sub) + 1: position of the first occurrence, 0 when there is none
Find(s, sub) ==
    LET hits == {i \in 1..(Len(s) - Len(sub) + 1) :
                    SubSeq(s, i, i + Len(sub) - 1) = sub}
    IN  IF hits = {} THEN 0 ELSE CHOOSE i \in hits : \A j \in hits : i <= j

\* sub in s
Contains(s, sub) == Find(s, sub) # 0

\* s.split(sub, 1)[1], for s that contains sub
AfterFirst(s, sub) == SubSeq(s, Find(s, sub) + Len(sub), Len(s))

Newline == <<"\n">>

\* s.split("\n")[0]
FirstLine(s) ==
    IF Contains(s, Newline) THEN SubSeq(s, 1, Find(s, Newline) - 1) ELSE s

IsSpace(c) == c \in {" ", "\n", "\t", "\r"}

\* str.strip()
Strip(s) ==
    LET keep == {i \in 1..Len(s) : ~IsSpace(s[i])}
    IN  IF keep = {} THEN <<>>
        ELSE SubSeq(s, CHOOSE i \in keep : \A j \in keep : i <= j,
                       CHOOSE i \in keep : \A j \in keep : i >= j)

-----------------------------------------------------------------------------
\* String literals of the source

StrRemindMeTo == <<"r", "e", "m", "i", "n", "d", " ", "m", "e", " ", "t", "o", " ">>
StrTomorrow == <<"t", "o", "m", "o", "r", "r", "o", "w">>
StrToday == <<"t", "o", "d", "a", "y">>
StrHour == <<"h", "o", "u", "r">>
StrMin == <<"m", "i", "n">>
StrLibrary == <<"l", "i", "b", "r", "a", "r", "y">>
StrGym == <<"g", "y", "m">>
StrCafeteria == <<"c", "a", "f", "e", "t", "e", "r", "i", "a">>
StrBuilding == <<"b", "u", "i", "l", "d", "i", "n", "g">>
StrHall == <<"h", "a", "l", "l">>
StrRoom == <<"r", "o", "o", "m">>
MarkTitle == <<"t", "i", "t", "l", "e", ":">>
MarkDate == <<"d", "a", "t", "e", ":">>
MarkTime == <<"t", "i", "m", "e", ":">>
MarkDuration == <<"d", "u", "r", "a", "t", "i", "o", "n", ":">>
MarkLocation == <<"l", "o", "c", "a", "t", "i", "o", "n", ":">>
MarkDescription == <<"d", "e", "s", "c", "r", "i", "p", "t", "i", "o", "n", ":">>

location_keywords ==
    {StrLibrary, StrGym, StrCafeteria, StrBuilding, StrHall, StrRoom}

-----------------------------------------------------------------------------
\* Input texts

\* ''
TxtEmpty ==
    <<>>
\* '  '
TxtBlank ==
    <<" ", " ">>
\* 'Remind me to submit my essay at 5 PM today'
TxtEssay ==
    <<"R", "e", "m", "i", "n", "d", " ", "m", "e", " ", "t", "o", " ", "s",
      "u", "b", "m", "i", "t", " ", "m", "y", " ", "e", "s", "s", "a", "y",
      " ", "a", "t", " ", "5", " ", "P", "M", " ", "t", "o", "d", "a", "y">>
\* 'remind me in 5'
TxtEndsNum ==
    <<"r", "e", "m", "i", "n", "d", " ", "m", "e", " ", "i", "n", " ", "5">>
\* 'Remind me to '
TxtBareMarker ==
    <<"R", "e", "m", "i", "n", "d", " ", "m", "e", " ", "t", "o", " ">>
\* 'Where is the main library?'
TxtLibrary ==
    <<"W", "h", "e", "r", "e", " ", "i", "s", " ", "t", "h", "e", " ", "m",
      "a", "i", "n", " ", "l", "i", "b", "r", "a", "r", "y", "?">>
\* 'title: Spring Gala\ndate: 2024-04-20\n'
TxtGala ==
    <<"t", "i", "t", "l", "e", ":", " ", "S", "p", "r", "i", "n", "g", " ",
      "G", "a", "l", "a", "\n", "d", "a", "t", "e", ":", " ", "2", "0", "2",
      "4", "-", "0", "4", "-", "2", "0", "\n">>
\* 'title:\ntime: 5'
TxtNoTitle ==
    <<"t", "i", "t", "l", "e", ":", "\n", "t", "i", "m", "e", ":", " ", "5">>
\* 'nap 5 min or 2 hours today or tomorrow'
TxtNap ==
    <<"n", "a", "p", " ", "5", " ", "m", "i", "n", " ", "o", "r", " ", "2",
      " ", "h", "o", "u", "r", "s", " ", "t", "o", "d", "a", "y", " ", "o",
      "r", " ", "t", "o", "m", "o", "r", "r", "o", "w">>
\* 'find Boston near Main Hall or Gym'
TxtBoston ==
    <<"f", "i", "n", "d", " ", "B", "o", "s", "t", "o", "n", " ", "n", "e",
      "a", "r", " ", "M", "a", "i", "n", " ", "H", "a", "l", "l", " ", "o",
      "r", " ", "G", "y", "m">>
\* 'Remind me to remind me to nap\ntime: 1 time: 2 pm'
TxtTwice ==
    <<"R", "e", "m", "i", "n", "d", " ", "m", "e", " ", "t", "o", " ", "r",
      "e", "m", "i", "n", "d", " ", "m", "e", " ", "t", "o", " ", "n", "a",
      "p", "\n", "t", "i", "m", "e", ":", " ", "1", " ", "t", "i", "m", "e",
      ":", " ", "2", " ", "p", "m">>
\* 'Hello bot'
TxtHello ==
    <<"H", "e", "l", "l", "o", " ", "b", "o", "t">>

AllTexts ==
    <<TxtEmpty, TxtBlank, TxtEssay, TxtEndsNum, TxtBareMarker, TxtLibrary,
      TxtGala, TxtNoTitle, TxtNap, TxtBoston, TxtTwice, TxtHello>>

\* Number of sample texts the calls draw from (a prefix of AllTexts).
NumTexts == 11

TextIds == 1..(IF NumTexts < Len(AllTexts) THEN NumTexts ELSE Len(AllTexts))

Texts == [t \in TextIds |-> AllTexts[t]]

-----------------------------------------------------------------------------
\* self.nlp(text): the SpaCy pipeline.  A token is a maximal run of
\* non-blank characters, with punctuation marks split off as tokens of their
\* own; a token carries its text and its position in the document.

IsPunct(c) == c \in {"?", "!", ",", ".", ":", ";"}

IsDigit(c) == c \in {"0", "1", "2", "3", "4", "5", "6", "7", "8", "9"}

RECURSIVE Scan(_, _, _, _)
Scan(s, i, start, acc) ==
    LET closed == IF start = 0 THEN acc ELSE Append(acc, <<start, i - 1>>)
    IN  IF i > Len(s) THEN closed
        ELSE IF IsSpace(s[i]) THEN Scan(s, i + 1, 0, closed)
        ELSE IF IsPunct(s[i]) THEN Scan(s, i + 1, 0, Append(closed, <<i, i>>))
        ELSE Scan(s, i + 1, IF start = 0 THEN i ELSE start, acc)

\* doc = self.nlp(text): the tokens, in order
Doc(s) ==
    LET spans == Scan(s, 1, 0, <<>>)
    IN  [i \in 1..Len(spans) |->
            [text |-> SubSeq(s, spans[i][1], spans[i][2]),
             first |-> spans[i][1], last |-> spans[i][2]]]

\* token.like_num
LikeNum(tok) ==
    /\ Len(tok.text) > 0
    /\ \A i \in 1..Len(tok.text) : IsDigit(tok.text[i])

\* The named-entity recogniser is a statistical model: which spans it reports
\* and how it labels them is fixed once the pipeline is loaded, but unknown.
\* Pipeline 0 reports nothing.  The other pipelines report every maximal run
\* of capitalised tokens and label the j-th run with the j-th label of their
\* labelling (cyclically).
NerLabellings ==
    << <<"PERSON", "GPE", "FAC">>,
       <<"ORG", "DATE", "LOC">> >>

NerModels == 0..Len(NerLabellings)

IsCap(tok) == IsUpper(tok.text[1])

\* the token index pairs <<a, b>> of the maximal capitalised runs, in order
RECURSIVE CapRuns(_, _, _, _)
CapRuns(doc, i, start, acc) ==
    LET closed == IF start = 0 THEN acc ELSE Append(acc, <<start, i - 1>>)
    IN  IF i > Len(doc) THEN closed
        ELSE IF IsCap(doc[i])
             THEN CapRuns(doc, i + 1, IF start = 0 THEN i ELSE start, acc)
             ELSE CapRuns(doc, i + 1, 0, closed)

\* doc.ents: each entity with its label_ and its text
Ents(n, s) ==
    LET doc  == Doc(s)
        runs == CapRuns(doc, 1, 0, <<>>)
        labs == NerLabellings[n]
    IN  IF n = 0 THEN <<>>
        ELSE [j \in 1..Len(runs) |->
                [label_ |-> labs[((j - 1) % Len(labs)) + 1],
                 text   |-> SubSeq(s, doc[runs[j][1]].first,
                                      doc[runs[j][2]].last)]]

-----------------------------------------------------------------------------
\* extract_entities(text, intent)

\* entities = {}
EmptyMap == [k \in {} |-> <<>>]

\* entities[k] = v
Put(m, k, v) == [x \in (DOMAIN m) \cup {k} |-> IF x = k THEN v ELSE m[x]]

\* not entities.get(k): the key is missing or its value is empty
Falsy(m, k) == k \notin DOMAIN m \/ m[k] = <<>>

Returned(m) == [raised |-> FALSE, entities |-> m]

IndexError(m) == [raised |-> TRUE, entities |-> m]

location_labels == {"GPE", "LOC", "ORG", "FAC"}

\* the loop over doc.ents without its break: the last match stays
LastLocationEnt(m, ents) ==
    LET hits == {j \in 1..Len(ents) : ents[j].label_ \in location_labels}
    IN  IF hits = {} THEN m
        ELSE Put(m, "location",
                 ents[CHOOSE j \in hits : \A k \in hits : j >= k].text)

\* for ent in doc.ents: if ent.label_ in [...]: entities["location"] = ent.text; break
FirstLocationEnt(m, ents) ==
    LET hits == {j \in 1..Len(ents) : ents[j].label_ \in location_labels}
    IN  IF hits = {} THEN m
        ELSE Put(m, "location",
                 ents[CHOOSE j \in hits : \A k \in hits : j <= k].text)

\* the fallback storing the matching token instead of the text
KeywordLocationToken(m, s) ==
    LET doc  == Doc(s)
        hits == {i \in 1..Len(doc) : Lower(doc[i].text) \in location_keywords}
    IN  IF hits = {} THEN m
        ELSE Put(m, "location",
                 doc[CHOOSE i \in hits : \A k \in hits : i <= k].text)

\* for token in doc: if token.text.lower() in location_keywords: ... = text; break
KeywordLocation(m, s) ==
    LET doc == Doc(s)
    IN  IF \E i \in 1..Len(doc) : Lower(doc[i].text) \in location_keywords
        THEN Put(m, "location", s)
        ELSE m

LocationBranch(n, s) ==
    LET m == FirstLocationEnt(EmptyMap, Ents(n, s))
    IN  IF Falsy(m, "location") THEN KeywordLocation(m, s) ELSE m

\* token.nbor() has a token to return
HasNbor(doc, i) == i + 1 <= Len(doc)

\* "hour" in token.nbor().text or "min" in token.nbor().text
UnitFollows(doc, i) ==
    Contains(doc[i + 1].text, StrHour) \/ Contains(doc[i + 1].text, StrMin)

\* the iteration that leaves a date already stored alone
ReminderTokenKeepsDate(m, doc, i) ==
    LET tok == doc[i]
        m1  == IF LikeNum(tok) /\ UnitFollows(doc, i)
               THEN Put(m, "duration", tok.text \o <<" ">> \o doc[i + 1].text)
               ELSE m
        m2  == IF Contains(Lower(tok.text), StrTomorrow) /\ "date" \notin DOMAIN m1
               THEN Put(m1, "date", StrTomorrow) ELSE m1
    IN  IF Contains(Lower(tok.text), StrToday) /\ "date" \notin DOMAIN m2
        THEN Put(m2, "date", StrToday) ELSE m2

\* the iteration that leaves a duration already stored alone
ReminderTokenKeepsDuration(m, doc, i) ==
    LET tok == doc[i]
        m1  == IF LikeNum(tok) /\ UnitFollows(doc, i)
                  /\ "duration" \notin DOMAIN m
               THEN Put(m, "duration", tok.text \o <<" ">> \o doc[i + 1].text)
               ELSE m
        m2  == IF Contains(Lower(tok.text), StrTomorrow)
               THEN Put(m1, "date", StrTomorrow) ELSE m1
    IN  IF Contains(Lower(tok.text), StrToday)
        THEN Put(m2, "date", StrToday) ELSE m2

\* one iteration of "for token in doc", after the nbor() lookups succeeded
ReminderToken(m, doc, i) ==
    LET tok == doc[i]
        m1  == IF LikeNum(tok) /\ UnitFollows(doc, i)
               THEN Put(m, "duration", tok.text \o <<" ">> \o doc[i + 1].text)
               ELSE m
        m2  == IF Contains(Lower(tok.text), StrTomorrow)
               THEN Put(m1, "date", StrTomorrow) ELSE m1
    IN  IF Contains(Lower(tok.text), StrToday)
        THEN Put(m2, "date", StrToday) ELSE m2

\* for token in doc: ...; token.nbor() raises IndexError on the last token
RECURSIVE ReminderLoop(_, _, _)
ReminderLoop(m, doc, i) ==
    IF i > Len(doc) THEN Returned(m)
    ELSE IF LikeNum(doc[i]) /\ ~HasNbor(doc, i) THEN IndexError(m)
    ELSE ReminderLoop(ReminderToken(m, doc, i), doc, i + 1)

\* the value cut from the text as typed instead of from text.lower()
ReminderTextRaw(m, s) ==
    IF Contains(Lower(s), StrRemindMeTo)
    THEN Put(m, "reminder_text",
             SubSeq(s, Find(Lower(s), StrRemindMeTo) + Len(StrRemindMeTo),
                    Len(s)))
    ELSE m

\* if "remind me to " in text.lower(): entities["reminder_text"] = ...
ReminderText(m, s) ==
    IF Contains(Lower(s), StrRemindMeTo)
    THEN Put(m, "reminder_text", AfterFirst(Lower(s), StrRemindMeTo))
    ELSE m

ReminderBranch(s) ==
    LET r == ReminderLoop(EmptyMap, Doc(s), 1)
    IN  IF r.raised THEN r ELSE Returned(ReminderText(r.entities, s))

\* the field stored without .strip()
EventFieldUnstripped(m, s, k, marker) ==
    IF Contains(s, marker)
    THEN Put(m, k, FirstLine(AfterFirst(s, marker)))
    ELSE m

\* if "<marker>" in text: entities[k] = text.split(marker, 1)[1].split("\n")[0].strip()
EventField(m, s, k, marker) ==
    IF Contains(s, marker)
    THEN Put(m, k, Strip(FirstLine(AfterFirst(s, marker))))
    ELSE m

\* the six "if" statements written as one if/elif chain
EventBranchChain(s) ==
    IF Contains(s, MarkTitle) THEN EventField(EmptyMap, s, "title", MarkTitle)
    ELSE IF Contains(s, MarkDate) THEN EventField(EmptyMap, s, "date", MarkDate)
    ELSE IF Contains(s, MarkTime) THEN EventField(EmptyMap, s, "time", MarkTime)
    ELSE IF Contains(s, MarkDuration)
         THEN EventField(EmptyMap, s, "duration", MarkDuration)
    ELSE IF Contains(s, MarkLocation)
         THEN EventField(EmptyMap, s, "location", MarkLocation)
    ELSE EventField(EmptyMap, s, "description", MarkDescription)

EventBranch(s) ==
    LET m1 == EventField(EmptyMap, s, "title", MarkTitle)
        m2 == EventField(m1, s, "date", MarkDate)
        m3 == EventField(m2, s, "time", MarkTime)
        m4 == EventField(m3, s, "duration", MarkDuration)
        m5 == EventField(m4, s, "location", MarkLocation)
    IN  EventField(m5, s, "description", MarkDescription)

\* the chain with its last "elif intent == ..." written as a plain "else"
extract_entities_else(n, s, i) ==
    IF i = "find_location" \/ i = "get_directions"
    THEN Returned(LocationBranch(n, s))
    ELSE IF i = "create_reminder" THEN ReminderBranch(s)
    ELSE Returned(EventBranch(s))

\* The value extract_entities(s, i) returns under pipeline n, or the
\* exception it raises.
extract_entities(n, s, i) ==
    IF i = "find_location" \/ i = "get_directions"
    THEN Returned(LocationBranch(n, s))
    ELSE IF i = "create_reminder" THEN ReminderBranch(s)
    ELSE IF i = "create_event" THEN Returned(EventBranch(s))
    ELSE Returned(EmptyMap)

-----------------------------------------------------------------------------
\* __init__: the catalog and the models

Catalog ==
    << [intent |-> "get_schedule",
        phrases |-> <<"schedule", "my classes", "timetable", "my next class",
                      "what am i doing today">>],
       [intent |-> "get_events",
        phrases |-> <<"events", "upcoming events", "what's happening",
                      "campus activities", "events this week">>],
       [intent |-> "create_reminder",
        phrases |-> <<"remind me", "set a reminder", "add reminder",
                      "new reminder">>],
       [intent |-> "get_deadlines",
        phrases |-> <<"deadlines", "assignments due", "when is this due",
                      "submission dates">>],
       [intent |-> "find_location",
        phrases |-> <<"where is", "find", "locate", "directions to",
                      "how to get to">>],
       [intent |-> "get_faculty_info",
        phrases |-> <<"faculty", "professor", "teacher", "contact professor">>],
       [intent |-> "get_club_info",
        phrases |-> <<"clubs", "student organizations", "club activities">>],
       [intent |-> "summarize_text",
        phrases |-> <<"summarize", "condense", "shorten", "give me a summary">>],
       [intent |-> "generate_poster",
        phrases |-> <<"create poster", "make poster", "design poster",
                      "event poster">>],
       [intent |-> "general_greeting",
        phrases |-> <<"hi", "hello", "hey", "greetings">>],
       [intent |-> "general_thanks",
        phrases |-> <<"thank you", "thanks", "appreciate it">>],
       [intent |-> "general_unclear",
        phrases |-> <<"i don't understand", "what can you do", "help me">>] >>

\* a candidate list that carries a label the catalog does not have
KeysWithStrayLabel(d) ==
    Append([j \in 1..Len(d) |-> d[j].intent], "get_directions")

\* list(d.keys())
Keys(d) == [j \in 1..Len(d) |-> d[j].intent]

KeySet(d) == {d[j].intent : j \in 1..Len(d)}

\* self.sentence_model.encode(phrases) for the phrases of catalog entry j:
\* one vector per phrase, named by the phrase it encodes
Encode(j, phrases) == [k \in 1..Len(phrases) |-> <<j, k>>]

\* {intent: self.sentence_model.encode(phrases) for intent, phrases in ...}
EmbeddingTable(d) ==
    [j \in 1..Len(d) |->
        [intent |-> d[j].intent, embeddings |-> Encode(j, d[j].phrases)]]

\* The sentence-embedding model is a fixed but unknown function.  What the
\* code reads of it is, per text, the cosine of the text vector with every
\* phrase vector.  A profile gives these cosines (in hundredths): the phrases
\* of intent "hot" lie around "lvl" (first phrase above, second below, the
\* others at lvl, so the mean is lvl), those of intent "tie" exactly at lvl,
\* all others at "floor".
Levels == <<30, 50, 70>>

SingleProfiles ==
    [p \in 1..(Len(Catalog) * Len(Levels)) |->
        [hot   |-> ((p - 1) \div Len(Levels)) + 1,
         lvl   |-> Levels[((p - 1) % Len(Levels)) + 1],
         tie   |-> 0,
         floor |-> 10]]

\* two intents with exactly the same mean: get_events (entry 2) ties with
\* create_reminder (entry 3, later in the catalog) or get_schedule (entry 1,
\* earlier in the catalog)
TieProfiles ==
    [p \in 1..(2 * Len(Levels)) |->
        [hot   |-> IF p <= Len(Levels) THEN 3 ELSE 1,
         lvl   |-> Levels[((p - 1) % Len(Levels)) + 1],
         tie   |-> 2,
         floor |-> 10]]

\* every phrase vector opposite to the text vector: all cosines are -1
OppositeProfile == [hot |-> 0, lvl |-> 0, tie |-> 0, floor |-> -100]

Profiles == SingleProfiles \o TieProfiles \o <<OppositeProfile>>

SentenceModels == 0..(Len(Profiles) - 1)

\* the profile of text t under sentence model w
ProfileFor(w, t) == Profiles[((w + t) % Len(Profiles)) + 1]

Cos(p, v) ==
    IF v[1] = p.hot
    THEN (IF v[2] = 1 THEN p.lvl + 20 ELSE IF v[2] = 2 THEN p.lvl - 20 ELSE p.lvl)
    ELSE IF v[1] = p.tie THEN p.lvl
    ELSE p.floor

\* cosine_similarity(text_embedding, embeddings): one row, one entry per phrase
cosine_similarity(w, t, embeddings) ==
    [k \in 1..Len(embeddings) |-> Cos(ProfileFor(w, t), embeddings[k])]

RECURSIVE Sum(_)
Sum(row) == IF row = <<>> THEN 0 ELSE Head(row) + Sum(Tail(row))

\* ndarray.mean(), as an exact fraction of hundredths
Mean(row) == [num |-> Sum(row), den |-> Len(row)]

\* a < b on fractions with positive denominators
Less(a, b) == a.num * b.den < b.num * a.den

\* max_similarity = -1
InitialMax == [num |-> -100, den |-> 1]

\* 0.5
Threshold == [num |-> 50, den |-> 1]

-----------------------------------------------------------------------------
\* classify_intent(text)

\* the similarity taken as the best phrase's cosine instead of the mean
SimilarityMax(w, t, embeddings) ==
    LET row == cosine_similarity(w, t, embeddings)
    IN  [num |-> CHOOSE x \in {row[k] : k \in 1..Len(row)} :
                    \A k \in 1..Len(row) : x >= row[k],
         den |-> 1]

\* similarity = cosine_similarity(text_embedding, embeddings).mean()
Similarity(w, t, embeddings) == Mean(cosine_similarity(w, t, embeddings))

\* the comparison written as ">=" instead of ">"
ExceedsOrEquals(similarity, max) == ~Less(similarity, max)

\* if similarity > max_similarity
Exceeds(similarity, max) == Less(max, similarity)

\* for intent, embeddings in self.intent_embeddings.items(): ...
\* from entry j on, with the locals as they are before that entry
RECURSIVE SimilarityLoop(_, _, _, _, _)
SimilarityLoop(w, t, table, j, locals) ==
    IF j > Len(table) THEN locals
    ELSE LET similarity == Similarity(w, t, table[j].embeddings)
         IN  SimilarityLoop(w, t, table, j + 1,
                IF Exceeds(similarity, locals.max_similarity)
                THEN [max_similarity   |-> similarity,
                      predicted_intent |-> table[j].intent]
                ELSE locals)

\* the comparison written as "<=" instead of "<"
BelowOrAtThreshold(max) == ~Less(Threshold, max)

\* if max_similarity < 0.5
BelowThreshold(max) == Less(max, Threshold)

\* labels from position r + 1 on, then the first r
Rotate(labels, r) ==
    [k \in 1..Len(labels) |-> labels[((k - 1 + r) % Len(labels)) + 1]]

\* self.classifier(text, candidate_labels): the zero-shot pipeline is a fixed
\* but unknown function too.  It answers with the candidate labels ranked by
\* score (a permutation of them), or fails (no label to rank, or a runtime
\* failure of the model).  Under zero-shot model z, the ranking of text t is
\* the candidate list rotated by (z + t); one rotation value stands for failure.
ZeroShot(z, t, candidate_labels) ==
    LET n == Len(candidate_labels)
        r == (z + t) % (n + 1)
    IN  IF n = 0 \/ r = n
        THEN [raised |-> TRUE, labels |-> <<>>]
        ELSE [raised |-> FALSE, labels |-> Rotate(candidate_labels, r)]

ZeroShotModels == 0..Len(Catalog)

-----------------------------------------------------------------------------
\* The state machine

NoResult == [k \in {} |-> <<>>]

\* the locals of a call: what a Python frame of process_query,
\* classify_intent or extract_entities holds
Frame(o, p, t, m, pi, c, f, i, e, r, x) ==
    [op |-> o, pc |-> p, text |-> t, max_similarity |-> m,
     predicted_intent |-> pi, candidate |-> c, fallback_calls |-> f,
     intent |-> i, entities |-> e, result |-> r, exception |-> x]

\* no call
IdleFrame ==
    Frame("none", "idle", 0, InitialMax, "", "", 0, "", EmptyMap, NoResult, "")

\* no handle_message call
IdleHandler ==
    [pc |-> "idle", user_message |-> 0, intent |-> "", entities |-> EmptyMap,
     delegate |-> "", args |-> << >>, replies |-> 0, response_text |-> ""]

\* Number of /start handlers that can be in progress at the same time.
NumStartHandlers == 2

StartHandlers == 1..NumStartHandlers

\* no /start command in progress
IdleStart ==
    [pc |-> "idle", user_telegram_id |-> 0, user_exists |-> FALSE,
     lastrowid |-> 0]

Init ==
    /\ intents = Catalog
    /\ intent_embeddings = EmbeddingTable(Catalog)
    /\ weights \in SentenceModels
    /\ zs \in ZeroShotModels
    /\ ner \in NerModels
    /\ op = "none"
    /\ pc = "idle"
    /\ text = 0
    /\ max_similarity = InitialMax
    /\ predicted_intent = ""
    /\ candidate = ""
    /\ fallback_calls = 0
    /\ intent = ""
    /\ entities = EmptyMap
    /\ result = NoResult
    /\ exception = ""
    /\ other = IdleFrame
    /\ main_pc = "none"
    /\ loads = 1
    /\ served = 0
    /\ handler = IdleHandler
    /\ users = << >>
    /\ starts = [h \in StartHandlers |-> IdleStart]

\* what the bot's message and command handlers hold
bot_state == <<handler, users, starts>>

\* state that no step of a call touches: the second caller's parked locals
\* and the bookkeeping of the hosting program
host == <<main_pc, loads, served, bot_state>>

outside == <<other, host>>

models == <<intents, intent_embeddings, weights, zs, ner>>

\* no call is being served
Free == pc = "idle"

\* a caller invokes process_query(Texts[t])
CallProcessQuery(t) ==
    /\ Free
    /\ op' = "process_query"
    /\ pc' = "similarity"
    /\ text' = t
    /\ max_similarity' = InitialMax
    /\ predicted_intent' = ""
    /\ candidate' = ""
    /\ fallback_calls' = 0
    /\ intent' = ""
    /\ entities' = EmptyMap
    /\ result' = NoResult
    /\ exception' = ""
    /\ UNCHANGED <<models, outside>>

\* the loop starting from what the other caller's call left behind, as if
\* max_similarity and predicted_intent were attributes of self
LoopStartShared ==
    IF other.predicted_intent = ""
    THEN [max_similarity |-> InitialMax, predicted_intent |-> "general_unclear"]
    ELSE [max_similarity   |-> other.max_similarity,
          predicted_intent |-> other.predicted_intent]

\* max_similarity = -1; predicted_intent = "general_unclear" (lines 61-62)
LoopStart ==
    [max_similarity |-> InitialMax, predicted_intent |-> "general_unclear"]

\* classify_intent, lines 59-68: encode the text and run the loop
SimilarityStep ==
    /\ pc = "similarity"
    /\ LET locals == SimilarityLoop(weights, text, intent_embeddings, 1,
                        LoopStart)
       IN  /\ max_similarity' = locals.max_similarity
           /\ predicted_intent' = locals.predicted_intent
           /\ candidate' = locals.predicted_intent
    /\ pc' = "threshold"
    /\ UNCHANGED <<models, outside, op, text, fallback_calls, intent, entities, result,
                   exception>>

\* a candidate list that leaves out the similarity candidate
candidate_labels_without_candidate ==
    SelectSeq(Keys(intents), LAMBDA k : k # candidate)

\* a candidate list that offers create_event to the zero-shot classifier
candidate_labels_with_create_event == <<"create_event">> \o Keys(intents)

\* candidate_labels = list(self.intents.keys()) (line 72)
candidate_labels == Keys(intents)

\* classify_intent, lines 72-75: the fallback is called and answers
FallbackAnswers ==
    /\ pc = "threshold"
    /\ BelowThreshold(max_similarity)
    /\ LET zero_shot_result == ZeroShot(zs, text, candidate_labels)
       IN  /\ ~zero_shot_result.raised
           /\ predicted_intent' = zero_shot_result.labels[1]
    /\ fallback_calls' = fallback_calls + 1
    /\ pc' = "classified"
    /\ UNCHANGED <<models, outside, op, text, max_similarity, candidate, intent,
                   entities, result, exception>>

\* classify_intent, line 74: the fallback is called and raises; nothing
\* catches the exception, so it leaves classify_intent and process_query
FallbackRaises ==
    /\ pc = "threshold"
    /\ BelowThreshold(max_similarity)
    /\ ZeroShot(zs, text, candidate_labels).raised
    /\ fallback_calls' = fallback_calls + 1
    /\ pc' = "raised"
    /\ exception' = "ZeroShotError"
    /\ UNCHANGED <<models, outside, op, text, max_similarity, predicted_intent,
                   candidate, intent, entities, result>>

\* a call that goes from the threshold test straight to packaging
NoFallbackSkipsExtraction ==
    /\ pc = "threshold"
    /\ ~BelowThreshold(max_similarity)
    /\ intent' = predicted_intent
    /\ pc' = "package"
    /\ UNCHANGED <<models, outside, op, text, max_similarity, predicted_intent,
                   candidate, fallback_calls, entities, result, exception>>

\* classify_intent, line 73: the condition is false
NoFallback ==
    /\ pc = "threshold"
    /\ ~BelowThreshold(max_similarity)
    /\ pc' = "classified"
    /\ UNCHANGED <<models, outside, op, text, max_similarity, predicted_intent,
                   candidate, fallback_calls, intent, entities, result,
                   exception>>

\* a classify_intent that adds the text it classified to the example
\* phrases of the intent it returns
ClassifyReturnsLearning ==
    /\ pc = "classified"
    /\ intent' = predicted_intent
    /\ pc' = "extract"
    /\ intents' = [j \in 1..Len(intents) |->
                     IF intents[j].intent = predicted_intent
                     THEN [intent  |-> intents[j].intent,
                           phrases |-> Append(intents[j].phrases, Texts[text])]
                     ELSE intents[j]]
    /\ UNCHANGED <<intent_embeddings, weights, zs, ner, outside, op, text,
                   max_similarity, predicted_intent, candidate,
                   fallback_calls, entities, result, exception>>

\* line 79 and line 138: intent = self.classify_intent(text)
ClassifyReturns ==
    /\ pc = "classified"
    /\ intent' = predicted_intent
    /\ pc' = "extract"
    /\ UNCHANGED <<models, outside, op, text, max_similarity, predicted_intent,
                   candidate, fallback_calls, entities, result, exception>>

\* Intents that extract_entities handles or may be handed by a direct caller
\* although the catalog (hence process_query) never produces them.
DirectIntents == {"get_directions", "create_event", "tell_joke"}

\* a caller invokes extract_entities(Texts[t], i) directly
CallExtractEntities(t, i) ==
    /\ Free
    /\ op' = "extract_entities"
    /\ pc' = "extract"
    /\ text' = t
    /\ intent' = i
    /\ max_similarity' = InitialMax
    /\ predicted_intent' = ""
    /\ candidate' = ""
    /\ fallback_calls' = 0
    /\ entities' = EmptyMap
    /\ result' = NoResult
    /\ exception' = ""
    /\ UNCHANGED <<models, outside>>

\* extraction handed the similarity candidate instead of the resolved intent
ExtractArgCandidate == IF op = "process_query" THEN candidate ELSE intent

\* the intent process_query hands to extract_entities (line 139)
ExtractArg == intent

\* every intent a call of extract_entities can be given in this model
ExtractIntents == KeySet(Catalog) \cup DirectIntents

\* extract_entities reads nothing but its arguments and the loaded pipeline,
\* so its outcomes are computed once per (pipeline, text, intent)
Extracted ==
    [n \in NerModels, t \in TextIds, i \in ExtractIntents |->
        extract_entities(n, Texts[t], i)]

\* extract_entities runs to its return statement (line 134); for a direct
\* call that is the end of the call, for process_query line 139 completes
ExtractReturns ==
    /\ pc = "extract"
    /\ LET r == Extracted[ner, text, ExtractArg]
       IN  /\ ~r.raised
           /\ entities' = r.entities
           /\ result' = IF op = "extract_entities" THEN r.entities ELSE result
    /\ pc' = IF op = "extract_entities" THEN "returned" ELSE "package"
    /\ UNCHANGED <<models, outside, op, text, max_similarity, predicted_intent,
                   candidate, fallback_calls, intent, exception>>

\* extract_entities raises (token.nbor() on the last token, line 104);
\* neither extract_entities nor process_query catches it
ExtractRaises ==
    /\ pc = "extract"
    /\ Extracted[ner, text, ExtractArg].raised
    /\ pc' = "raised"
    /\ exception' = "IndexError"
    /\ UNCHANGED <<models, outside, op, text, max_similarity, predicted_intent,
                   candidate, fallback_calls, intent, entities, result>>

\* the dict process_query builds (lines 141-145)
QueryResult(i, e, s) == [intent |-> i, entities |-> e, original_text |-> s]

\* process_query, lines 141-145
Package ==
    /\ pc = "package"
    /\ result' = QueryResult(intent, entities, Texts[text])
    /\ pc' = "returned"
    /\ UNCHANGED <<models, outside, op, text, max_similarity, predicted_intent,
                   candidate, fallback_calls, intent, entities, exception>>

\* the caller has the returned value, or the exception, in hand
Finished == pc \in {"returned", "raised"}

\* the locals of a finished call are gone
DoneLocals ==
    /\ Finished
    /\ op' = "none"
    /\ pc' = "idle"
    /\ text' = 0
    /\ max_similarity' = InitialMax
    /\ predicted_intent' = ""
    /\ candidate' = ""
    /\ fallback_calls' = 0
    /\ intent' = ""
    /\ entities' = EmptyMap
    /\ result' = NoResult
    /\ exception' = ""

\* a call that leaves the sentence model changed behind it (adapted to the
\* query it served)
DoneDrifting ==
    /\ DoneLocals
    /\ weights' = (weights + 1) % Len(Profiles)
    /\ UNCHANGED <<intents, intent_embeddings, zs, ner, outside>>

\* the call is over: the caller moves on
Done ==
    /\ DoneLocals
    /\ UNCHANGED <<models, outside>>

Next ==
    \/ \E t \in TextIds : CallProcessQuery(t)
    \/ \E t \in TextIds, i \in DirectIntents : CallExtractEntities(t, i)
    \/ SimilarityStep
    \/ FallbackAnswers
    \/ FallbackRaises
    \/ NoFallback
    \/ ClassifyReturns
    \/ ExtractReturns
    \/ ExtractRaises
    \/ Package
    \/ Done

Spec == Init /\ [][Next]_vars

-----------------------------------------------------------------------------
\* Two callers on one NLPProcessor.  The locals of a call live in its own
\* Python frame; the attributes of self are shared.  One caller takes steps
\* at a time; a switch parks its frame and resumes the other caller's, at
\* any point: in the middle of a call, or between calls (so the parked frame
\* may hold a finished call while the running caller makes further calls).

Running ==
    Frame(op, pc, text, max_similarity, predicted_intent, candidate,
          fallback_calls, intent, entities, result, exception)

\* the scheduler (threads, or an executor around process_query) switches
\* callers
Switch ==
    /\ other' = Running
    /\ op' = other.op
    /\ pc' = other.pc
    /\ text' = other.text
    /\ max_similarity' = other.max_similarity
    /\ predicted_intent' = other.predicted_intent
    /\ candidate' = other.candidate
    /\ fallback_calls' = other.fallback_calls
    /\ intent' = other.intent
    /\ entities' = other.entities
    /\ result' = other.result
    /\ exception' = other.exception
    /\ UNCHANGED <<models, host>>

\* Sentence and zero-shot models loaded in the two-caller runs
ConcWeights == {0, 7, 17, 31, 42}

ConcZeroShot == {0, 5, 11}

InitConc ==
    /\ Init
    /\ weights \in ConcWeights
    /\ zs \in ConcZeroShot
    /\ ner = 1

NextConc ==
    \/ \E t \in TextIds : CallProcessQuery(t)
    \/ SimilarityStep
    \/ FallbackAnswers
    \/ FallbackRaises
    \/ NoFallback
    \/ ClassifyReturns
    \/ ExtractReturns
    \/ ExtractRaises
    \/ Package
    \/ Done
    \/ Switch

SpecConc == InitConc /\ [][NextConc]_vars

-----------------------------------------------------------------------------
\* The hosting program, codes/main.py: main() builds an NLPProcessor, runs
\* its test queries through it, and then builds the Telegram bot, whose
\* constructor builds an NLPProcessor of its own.  weights, zs and ner are
\* the pretrained models installed on the host; a load builds the catalog
\* and the embedding table from them.

\* main.py, lines 29-40: the test queries that the sample texts hold; the
\* others are served by the same loop
test_queries == <<3, 6>>

InitMain ==
    /\ intents = << >>
    /\ intent_embeddings = << >>
    /\ weights \in ConcWeights
    /\ zs \in ConcZeroShot
    /\ ner = 1
    /\ op = "none"
    /\ pc = "idle"
    /\ text = 0
    /\ max_similarity = InitialMax
    /\ predicted_intent = ""
    /\ candidate = ""
    /\ fallback_calls = 0
    /\ intent = ""
    /\ entities = EmptyMap
    /\ result = NoResult
    /\ exception = ""
    /\ other = IdleFrame
    /\ main_pc = "start"
    /\ loads = 0
    /\ served = 0
    /\ handler = IdleHandler
    /\ users = << >>
    /\ starts = [h \in StartHandlers |-> IdleStart]

\* NLPProcessor.__init__: the three models are loaded and the embedding
\* table is built
LoadModels ==
    /\ intents' = Catalog
    /\ intent_embeddings' = EmbeddingTable(Catalog)
    /\ loads' = loads + 1
    /\ UNCHANGED <<weights, zs, ner>>

\* main.py, line 26
MainLoadNlp ==
    /\ main_pc = "start"
    /\ LoadModels
    /\ main_pc' = "testing"
    /\ UNCHANGED <<op, pc, text, max_similarity, predicted_intent, candidate,
                   fallback_calls, intent, entities, result, exception,
                   other, served, bot_state>>

\* main.py, lines 43-44: the next test query is processed
MainTestQuery ==
    /\ main_pc = "testing"
    /\ served < Len(test_queries)
    /\ CallProcessQuery(test_queries[served + 1])

\* main.py, lines 44-47: the result is logged; an exception leaves main()
MainTestDone ==
    /\ main_pc = "testing"
    /\ DoneLocals
    /\ IF pc = "raised"
          THEN main_pc' = "crashed" /\ served' = served
          ELSE main_pc' = main_pc /\ served' = served + 1
    /\ UNCHANGED <<models, other, loads, bot_state>>

\* main.py, lines 52-55: no token, main() returns
MainNoToken ==
    /\ main_pc = "testing"
    /\ Free
    /\ served = Len(test_queries)
    /\ main_pc' = "exited"
    /\ UNCHANGED <<models, op, pc, text, max_similarity, predicted_intent,
                   candidate, fallback_calls, intent, entities, result,
                   exception, other, loads, served, bot_state>>

\* main.py, line 57, and telegram_bot.py, line 38: the bot's constructor
\* builds its own NLPProcessor
MainLoadBot ==
    /\ main_pc = "testing"
    /\ Free
    /\ served = Len(test_queries)
    /\ LoadModels
    /\ main_pc' = "polling"
    /\ UNCHANGED <<op, pc, text, max_similarity, predicted_intent, candidate,
                   fallback_calls, intent, entities, result, exception,
                   other, served, bot_state>>

\* telegram_bot.py, line 292: handle_message processes a user's message
BotMessage(t) ==
    /\ main_pc = "polling"
    /\ CallProcessQuery(t)

\* telegram_bot.py, lines 293-360 and 362: the handler answers, or the
\* error handler logs the exception; polling goes on
BotMessageDone ==
    /\ main_pc = "polling"
    /\ DoneLocals
    /\ served' = IF served = Len(test_queries) THEN served + 1 ELSE served
    /\ UNCHANGED <<models, other, main_pc, loads, bot_state>>

NextMain ==
    \/ MainLoadNlp
    \/ MainTestQuery
    \/ MainTestDone
    \/ MainNoToken
    \/ MainLoadBot
    \/ \E t \in TextIds : BotMessage(t)
    \/ BotMessageDone
    \/ SimilarityStep
    \/ FallbackAnswers
    \/ FallbackRaises
    \/ NoFallback
    \/ ClassifyReturns
    \/ ExtractReturns
    \/ ExtractRaises
    \/ Package

SpecMain == InitMain /\ [][NextMain]_vars

-----------------------------------------------------------------------------
\* CampusCopilotBot.handle_message (codes/telegram_bot.py), taken for every
\* intent classify_intent could hand back: the processed query of text t and
\* intent i is {intent: i, entities: extract_entities(t, i)}.

\* the locals of the NLPProcessor call in progress
frame == <<op, pc, text, max_similarity, predicted_intent, candidate,
           fallback_calls, intent, entities, result, exception>>

\* entities.get("location") is truthy
HasLocation(e) == ~Falsy(e, "location")

\* the branch ends with "return" after awaiting a handler and never sends
\* its own reply as well
DelegatedThenReplies(name, args) ==
    [delegate |-> name, args |-> args, replies |-> 1, response_text |-> ""]

\* await self.calendar_handlers.<name>(update, context); return
Delegated(name, args) ==
    [delegate |-> name, args |-> args, replies |-> 0, response_text |-> ""]

\* response_text = ...; await update.message.reply_text(response_text, ...)
\* (lines 357-360)
Replied(response_text) ==
    [delegate |-> "", args |-> << >>, replies |-> 1,
     response_text |-> response_text]

\* the location branches delegating whether or not a location was extracted
LocationDispatchAlways(e, name, prompt) ==
    Delegated(name, IF HasLocation(e) THEN <<e["location"]>> ELSE << >>)

\* lines 309-315 and 316-322: if entities.get("location"): ... else: ...
LocationDispatch(e, name, prompt) ==
    IF HasLocation(e)
    THEN Delegated(name, <<e["location"]>>)
    ELSE Replied(prompt)

\* the if/elif chain of lines 300-355; the reply texts are named by their
\* opening words
Dispatch(i, e) ==
    IF i = "get_schedule" THEN Replied("I can help with your schedule!")
    ELSE IF i = "get_events" THEN Delegated("handle_calendar_events", << >>)
    ELSE IF i = "create_reminder" THEN Replied("I can set reminders for you!")
    ELSE IF i = "find_location"
         THEN LocationDispatch(e, "handle_find_location",
                  "I can help you find locations on campus.")
    ELSE IF i = "get_directions"
         THEN LocationDispatch(e, "handle_directions",
                  "I can give you directions on campus.")
    ELSE IF i = "create_event" THEN Replied("I can help you create events!")
    ELSE IF i = "summarize_text"
         THEN Replied("I can summarize text for you.")
    ELSE IF i = "generate_poster"
         THEN Replied("I can help you generate posters for events.")
    ELSE IF i = "general_greeting"
         THEN Replied("Hello! How can I assist you today?")
    ELSE IF i = "general_thanks" THEN Replied("You're welcome!")
    ELSE Replied("I received your message:")

\* lines 286-294: the message is processed and the intent and the entities
\* are taken from the result
HandleMessageProcessed(t, i) ==
    /\ handler.pc = "idle"
    /\ ~Extracted[ner, t, i].raised
    /\ handler' = [IdleHandler EXCEPT !.pc = "processed",
                                      !.user_message = t,
                                      !.intent = i,
                                      !.entities = Extracted[ner, t, i].entities]
    /\ UNCHANGED <<models, frame, other, main_pc, loads, served, users, starts>>

\* line 292: process_query raises and the exception leaves handle_message
HandleMessageRaises(t, i) ==
    /\ handler.pc = "idle"
    /\ Extracted[ner, t, i].raised
    /\ handler' = [IdleHandler EXCEPT !.pc = "raised",
                                      !.user_message = t,
                                      !.intent = i]
    /\ UNCHANGED <<models, frame, other, main_pc, loads, served, users, starts>>

\* lines 298-360
HandleMessageDispatch ==
    /\ handler.pc = "processed"
    /\ LET d == Dispatch(handler.intent, handler.entities)
       IN  handler' = [handler EXCEPT !.pc = "done",
                                      !.delegate = d.delegate,
                                      !.args = d.args,
                                      !.replies = d.replies,
                                      !.response_text = d.response_text]
    /\ UNCHANGED <<models, frame, other, main_pc, loads, served, users, starts>>

\* the handler is over
HandleMessageDone ==
    /\ handler.pc \in {"done", "raised"}
    /\ handler' = IdleHandler
    /\ UNCHANGED <<models, frame, other, main_pc, loads, served, users, starts>>

NextHandler ==
    \/ \E t \in TextIds, i \in ExtractIntents : HandleMessageProcessed(t, i)
    \/ \E t \in TextIds, i \in ExtractIntents : HandleMessageRaises(t, i)
    \/ HandleMessageDispatch
    \/ HandleMessageDone

\* the classifiers play no part here: one sentence model and one zero-shot
\* model, every parser
InitHandler ==
    /\ Init
    /\ weights = 0
    /\ zs = 0

SpecHandler == InitHandler /\ [][NextHandler]_vars

-----------------------------------------------------------------------------
\* CampusCopilotBot.start_command and the users table of
\* codes/database_manager.py.  Every query opens its own connection and
\* commits, so a query is one step; handlers of different updates may be
\* between their two queries at the same time.

\* Number of Telegram users that send /start.
NumTelegramIds == 2

TelegramIds == 1..NumTelegramIds

\* SELECT * FROM users WHERE telegram_id = ?
SelectUser(table, telegram_id) ==
    SelectSeq(table, LAMBDA row : row.telegram_id = telegram_id)

\* the INSERT on a table whose telegram_id column is not UNIQUE
InsertUserNoUnique(table, telegram_id) ==
    [lastrowid |-> Len(table) + 1,
     table |-> Append(table, [user_id |-> Len(table) + 1,
                              telegram_id |-> telegram_id])]

\* execute_query("INSERT INTO users (telegram_id, ...) VALUES (?, ...)"):
\* telegram_id is UNIQUE (line 25), so a second row for the same id raises
\* sqlite3.IntegrityError, which execute_query catches, returning None (0
\* here); user_id is the next rowid
InsertUser(table, telegram_id) ==
    IF SelectUser(table, telegram_id) # << >>
    THEN [lastrowid |-> 0, table |-> table]
    ELSE [lastrowid |-> Len(table) + 1,
          table |-> Append(table, [user_id |-> Len(table) + 1,
                                   telegram_id |-> telegram_id])]

\* a /start update of user u arrives (line 43)
StartCommand(h, u) ==
    /\ starts[h].pc = "idle"
    /\ starts' = [starts EXCEPT ![h] = [IdleStart EXCEPT !.pc = "get_user",
                                                        !.user_telegram_id = u]]
    /\ UNCHANGED <<models, frame, other, main_pc, loads, served, handler, users>>

\* user_exists = self.db_manager.get_user(user_telegram_id) (line 46)
GetUser(h) ==
    /\ starts[h].pc = "get_user"
    /\ starts' = [starts EXCEPT
          ![h].pc = "checked",
          ![h].user_exists = SelectUser(users, starts[h].user_telegram_id) # << >>]
    /\ UNCHANGED <<models, frame, other, main_pc, loads, served, handler, users>>

\* fetch_query catches sqlite3.Error and returns [] (lines 110-112)
GetUserFails(h) ==
    /\ starts[h].pc = "get_user"
    /\ starts' = [starts EXCEPT ![h].pc = "checked", ![h].user_exists = FALSE]
    /\ UNCHANGED <<models, frame, other, main_pc, loads, served, handler, users>>

\* if not user_exists: self.db_manager.add_user(user_telegram_id) (lines 47-48)
AddUser(h) ==
    /\ starts[h].pc = "checked"
    /\ ~starts[h].user_exists
    /\ LET r == InsertUser(users, starts[h].user_telegram_id)
       IN  /\ users' = r.table
           /\ starts' = [starts EXCEPT ![h].pc = "welcome",
                                       ![h].lastrowid = r.lastrowid]
    /\ UNCHANGED <<models, frame, other, main_pc, loads, served, handler>>

\* line 47: the user exists, nothing is inserted
KnownUser(h) ==
    /\ starts[h].pc = "checked"
    /\ starts[h].user_exists
    /\ starts' = [starts EXCEPT ![h].pc = "welcome"]
    /\ UNCHANGED <<models, frame, other, main_pc, loads, served, handler, users>>

\* the welcome message is sent and the handler is over
StartDone(h) ==
    /\ starts[h].pc = "welcome"
    /\ starts' = [starts EXCEPT ![h] = IdleStart]
    /\ UNCHANGED <<models, frame, other, main_pc, loads, served, handler, users>>

NextStart ==
    \/ \E h \in StartHandlers, u \in TelegramIds : StartCommand(h, u)
    \/ \E h \in StartHandlers : GetUser(h)
    \/ \E h \in StartHandlers : GetUserFails(h)
    \/ \E h \in StartHandlers : AddUser(h)
    \/ \E h \in StartHandlers : KnownUser(h)
    \/ \E h \in StartHandlers : StartDone(h)

\* the NLP models play no part here
InitStart ==
    /\ Init
    /\ weights = 0
    /\ zs = 0
    /\ ner = 0

SpecStart == InitStart /\ [][NextStart]_vars

-----------------------------------------------------------------------------
\* Properties

\* a process_query call that has passed the threshold test of classify_intent
Classified ==
    /\ op = "process_query"
    /\ pc \in {"classified", "extract", "package", "returned", "raised"}

\* this call invoked the zero-shot classifier and the classifier failed
FallbackFailed ==
    /\ op = "process_query"
    /\ fallback_calls = 1
    /\ ZeroShot(zs, text, Keys(intents)).raised

HandledIntents ==
    {"find_location", "get_directions", "create_reminder", "create_event"}

\* C1: whether or not the fallback is taken, the intent classify_intent
\* returns, and the intent of the result of process_query, is a key of the
\* catalog self.intents.
C1_IntentInCatalog ==
    /\ pc = "classified" => predicted_intent \in KeySet(intents)
    /\ (op = "process_query" /\ pc \in {"extract", "package"})
          => intent \in KeySet(intents)
    /\ (op = "process_query" /\ pc = "returned")
          => result.intent \in KeySet(intents)

\* a call returned the fallback's label, which differs from the candidate
C1_Witness ==
    /\ op = "process_query"
    /\ pc = "returned"
    /\ fallback_calls = 1
    /\ result.intent # candidate

\* C2: process_query on empty or whitespace-only text never raises and
\* returns general_unclear with an empty entity map, whatever the similarity
\* scores and the zero-shot ranking are.  (Stated for the calls in which the
\* zero-shot classifier, if asked, did produce a ranking.)
C2_EmptyTextIsUnclear ==
    (/\ op = "process_query"
     /\ Finished
     /\ Strip(Texts[text]) = <<>>
     /\ exception # "ZeroShotError")
        => /\ pc = "returned"
           /\ result.intent = "general_unclear"
           /\ result.entities = EmptyMap

\* C3: every process_query call returns normally, with a result holding
\* intent, entities and original_text; no exception leaves process_query.
C3_NoExceptionEscapes ==
    (op = "process_query" /\ Finished)
        => /\ pc = "returned"
           /\ DOMAIN result = {"intent", "entities", "original_text"}

\* C4: in a classify_intent call the fallback is invoked (exactly once) if the
\* maximum mean similarity is strictly below 0.5 and not at all otherwise;
\* when it is not invoked the similarity candidate is returned.
C4_FallbackIffBelowThreshold ==
    Classified
        => /\ fallback_calls \in {0, 1}
           /\ (fallback_calls = 1)
                <=> (2 * max_similarity.num < 100 * max_similarity.den)
           /\ (fallback_calls = 0 /\ pc = "classified")
                => predicted_intent = candidate
           /\ (fallback_calls = 0 /\ pc \in {"extract", "package", "returned"})
                => intent = candidate

\* a call whose maximum mean similarity is exactly 0.5 skipped the fallback
C4_Witness ==
    /\ Classified
    /\ pc = "classified"
    /\ 2 * max_similarity.num = 100 * max_similarity.den
    /\ fallback_calls = 0
    /\ predicted_intent = candidate

\* C5: when the zero-shot classifier invoked by the fallback is unavailable,
\* classification returns general_unclear and the pipeline does not crash.
C5_FallbackFailureGivesUnclear ==
    (FallbackFailed /\ pc # "threshold")
        => /\ pc # "raised"
           /\ pc = "classified" => predicted_intent = "general_unclear"

\* C6: when the zero-shot classifier fails at run time in a call below the
\* threshold, classify_intent returns the similarity candidate and the
\* failure does not reach the caller.
C6_FallbackFailureGivesCandidate ==
    (FallbackFailed /\ pc # "threshold")
        => /\ exception # "ZeroShotError"
           /\ pc = "classified" => predicted_intent = candidate

\* C7: extract_entities never raises, for any text and any intent, also when
\* the last token of a create_reminder text is number-like.
C7_ExtractNeverRaises == exception # "IndexError"

\* C8: every key present in an entity map extract_entities returned has a
\* non-empty value.
C8_NoEmptyValue ==
    pc \in {"package", "returned"}
        => \A k \in DOMAIN entities : entities[k] # <<>>

\* C9: process_query returns {intent, entities, original_text} with
\* original_text the input text, intent the value classify_intent returned
\* and entities the value of extract_entities(text, intent) for that intent.
C9_ResultIsTheTriple ==
    (op = "process_query" /\ pc = "returned")
        => /\ DOMAIN result = {"intent", "entities", "original_text"}
           /\ result.original_text = AllTexts[text]
           /\ result.intent = predicted_intent
           /\ result.entities
                = extract_entities(ner, AllTexts[text], predicted_intent).entities

\* a call returned a non-empty entity map extracted for the fallback's label
C9_Witness ==
    /\ op = "process_query"
    /\ pc = "returned"
    /\ fallback_calls = 1
    /\ result.intent # candidate
    /\ result.entities # EmptyMap

\* C10: for every intent other than find_location, get_directions,
\* create_reminder and create_event, extract_entities returns the empty map
\* (and so does not raise), whatever the text.
C10_OtherIntentsEmpty ==
    (pc \in {"package", "returned", "raised"} /\ intent \notin HandledIntents)
        => /\ exception # "IndexError"
           /\ entities = EmptyMap
           /\ op = "extract_entities" => result = EmptyMap

\* extract_entities returned for a text full of markers and an intent that
\* is not one of the four
C10_Witness ==
    /\ pc = "returned"
    /\ op = "extract_entities"
    /\ intent = "tell_joke"
    /\ AllTexts[text] = TxtGala

-----------------------------------------------------------------------------
\* Properties of repeated and of overlapping calls (checked under SpecConc)

FrameFinished(f) == f.op = "process_query" /\ f.pc \in {"returned", "raised"}

\* C11: with the catalog and the models unchanged, two process_query calls
\* with the same text end the same way: the same result (intent, entity map,
\* original_text), or the same exception, whatever calls were made between
\* them.
C11_Idempotent ==
    (FrameFinished(Running) /\ FrameFinished(other) /\ text = other.text)
        => /\ pc = other.pc
           /\ result = other.result
           /\ exception = other.exception

\* two calls with the same text both returned, through the fallback and
\* with a non-empty entity map
C11_Witness ==
    /\ FrameFinished(Running)
    /\ FrameFinished(other)
    /\ text = other.text
    /\ pc = "returned"
    /\ fallback_calls = 1
    /\ result.entities # EmptyMap

\* What process_query(Texts[t]) does when it runs alone on the loaded
\* models: how it ends, and with which result.
Alone(t) ==
    LET locals == SimilarityLoop(weights, t, EmbeddingTable(Catalog), 1,
                    [max_similarity   |-> InitialMax,
                     predicted_intent |-> "general_unclear"])
        below  == 2 * locals.max_similarity.num < 100 * locals.max_similarity.den
        z      == ZeroShot(zs, t, Keys(Catalog))
        failed == below /\ z.raised
        label  == IF below /\ ~z.raised THEN z.labels[1]
                  ELSE locals.predicted_intent
        e      == extract_entities(ner, AllTexts[t], label)
    IN  IF failed
        THEN [pc |-> "raised", exception |-> "ZeroShotError", result |-> NoResult]
        ELSE IF e.raised
        THEN [pc |-> "raised", exception |-> "IndexError", result |-> NoResult]
        ELSE [pc |-> "returned", exception |-> "",
              result |-> [intent |-> label, entities |-> e.entities,
                          original_text |-> AllTexts[t]]]

EndsAsAlone(f) ==
    FrameFinished(f)
        => /\ f.pc = Alone(f.text).pc
           /\ f.exception = Alone(f.text).exception
           /\ f.result = Alone(f.text).result

\* C12: under every interleaving of the steps of two process_query calls on
\* one NLPProcessor, without any lock, each call ends as it would when run
\* alone.
C12_InterleavingsEndAsAlone == EndsAsAlone(Running) /\ EndsAsAlone(other)

\* a call returned while the other caller's call, begun earlier on another
\* text, is suspended after its similarity loop
C12_Witness ==
    /\ op = "process_query"
    /\ pc = "returned"
    /\ other.op = "process_query"
    /\ other.pc = "threshold"
    /\ other.text # text
    /\ other.candidate # result.intent

\* C13: the models are loaded exactly once per process, the load completes
\* before the first process_query call is served, and no load happens once
\* a call has been served.
C13_LoadedOnceBeforeServing ==
    /\ loads <= 1
    /\ (op = "process_query" \/ served > 0) => loads >= 1
    /\ (served > 0 /\ main_pc = "polling") => loads = 1

\* extract_entities has returned its map for intent i
ExtractedFor(i) == pc \in {"package", "returned"} /\ intent = i

\* sub occurs in s at position k
OccursAt(s, sub, k) ==
    /\ k >= 1
    /\ k + Len(sub) - 1 <= Len(s)
    /\ SubSeq(s, k, k + Len(sub) - 1) = sub

Occurs(s, sub) == \E k \in 1..Len(s) : OccursAt(s, sub, k)

\* v is what follows the first occurrence of sub in s
FollowsFirst(s, sub, v) ==
    \E k \in 1..Len(s) :
        /\ OccursAt(s, sub, k)
        /\ \A h \in 1..(k - 1) : ~OccursAt(s, sub, h)
        /\ v = SubSeq(s, k + Len(sub), Len(s))

\* C15: for find_location or get_directions, when no entity of class GPE,
\* LOC, ORG or FAC is recognised: if some token, lower-cased, is a location
\* keyword, location is the entire original text (non-empty); otherwise the
\* map has no location key.
C15_KeywordFallback ==
    LET s    == Texts[text]
        ents == Ents(ner, s)
        doc  == Doc(s)
    IN  (/\ ExtractedFor("find_location") \/ ExtractedFor("get_directions")
         /\ \A j \in 1..Len(ents) : ents[j].label_ \notin location_labels)
            => IF \E i \in 1..Len(doc) :
                      Lower(doc[i].text) \in location_keywords
               THEN /\ DOMAIN entities = {"location"}
                    /\ entities["location"] = s
                    /\ s # <<>>
               ELSE "location" \notin DOMAIN entities

C15_Witness ==
    /\ op = "process_query"
    /\ pc = "returned"
    /\ result.intent = "find_location"
    /\ ner = 1
    /\ result.entities = [k \in {"location"} |-> TxtLibrary]

\* C16: for create_reminder, reminder_text is present exactly when the
\* lower-cased text contains "remind me to "; its value is everything after
\* the first occurrence of the phrase in the lower-cased text, later
\* occurrences included.
C16_ReminderTextAfterFirst ==
    LET low == Lower(Texts[text])
    IN  ExtractedFor("create_reminder")
            => /\ ("reminder_text" \in DOMAIN entities)
                      <=> Occurs(low, StrRemindMeTo)
               /\ "reminder_text" \in DOMAIN entities
                      => FollowsFirst(low, StrRemindMeTo,
                                      entities["reminder_text"])

C16_Witness ==
    /\ ExtractedFor("create_reminder")
    /\ Texts[text] = TxtTwice
    /\ "reminder_text" \in DOMAIN entities
    /\ Occurs(entities["reminder_text"], StrRemindMeTo)

\* the fields of an event and their markers (lines 119-130)
EventMarkers ==
    [title |-> MarkTitle, date |-> MarkDate, time |-> MarkTime,
     duration |-> MarkDuration, location |-> MarkLocation,
     description |-> MarkDescription]

\* C17: for create_event, the keys of the entity map are exactly the fields
\* whose marker "<field>:" occurs in the raw text; one marker never adds or
\* removes another field's key.
C17_EventKeysAreMarkersPresent ==
    ExtractedFor("create_event")
        => DOMAIN entities
               = {k \in DOMAIN EventMarkers : Occurs(Texts[text], EventMarkers[k])}

C17_Witness ==
    /\ ExtractedFor("create_event")
    /\ Texts[text] = TxtGala
    /\ DOMAIN entities = {"title", "date"}

\* v is s without its leading and trailing whitespace
Trimmed(s, v) ==
    \E a \in 1..(Len(s) + 1) , b \in 0..Len(s) :
        /\ v = SubSeq(s, a, b)
        /\ \A i \in 1..(a - 1) : IsSpace(s[i])
        /\ \A i \in (b + 1)..Len(s) : IsSpace(s[i])
        /\ (a <= b => ~IsSpace(s[a]) /\ ~IsSpace(s[b]))
        /\ (a > b => v = << >>)

\* v is s up to its first newline, or s if it has none
UpToNewline(s, v) ==
    \E n \in 0..Len(s) :
        /\ v = SubSeq(s, 1, n)
        /\ \A i \in 1..n : s[i] # "\n"
        /\ n < Len(s) => s[n + 1] = "\n"

\* C18: for create_event, the value of each present field is the part of
\* the raw text from right after the first occurrence of its marker to the
\* next newline (or the end of the text), without leading and trailing
\* whitespace.
C18_EventValueIsTrimmedLine ==
    ExtractedFor("create_event")
        => \A k \in DOMAIN entities :
              \E rest \in {SubSeq(Texts[text], a, Len(Texts[text])) :
                              a \in 1..(Len(Texts[text]) + 1)} :
                 /\ FollowsFirst(Texts[text], EventMarkers[k], rest)
                 /\ \E line \in {SubSeq(rest, 1, n) : n \in 0..Len(rest)} :
                       /\ UpToNewline(rest, line)
                       /\ Trimmed(line, entities[k])

C18_Witness ==
    /\ ExtractedFor("create_event")
    /\ Texts[text] = TxtTwice
    /\ DOMAIN entities = {"time"}
    /\ Occurs(entities["time"], MarkTime)
    /\ Len(entities["time"]) = 12

\* the mean cosine similarity of text t to the example phrases of entry j
MeanFor(w, t, j) ==
    LET row == cosine_similarity(w, t, EmbeddingTable(Catalog)[j].embeddings)
    IN  [num |-> Sum(row), den |-> Len(row)]

\* a = b on fractions
Same(a, b) == a.num * b.den = b.num * a.den

Entries == 1..Len(Catalog)

\* entry j has the greatest mean similarity to text t
Maximal(w, t, j) == \A k \in Entries : ~Less(MeanFor(w, t, j), MeanFor(w, t, k))

\* C19: the similarity candidate is an intent whose mean cosine similarity
\* to the text is maximal over the catalog, and the confidence compared
\* with the threshold is that maximal mean.
C19_CandidateIsArgmaxOfMean ==
    pc = "threshold"
        => \E j \in Entries :
              /\ Catalog[j].intent = candidate
              /\ Maximal(weights, text, j)
              /\ Same(max_similarity, MeanFor(weights, text, j))

C19_Witness ==
    /\ pc = "threshold"
    /\ candidate = "summarize_text"
    /\ max_similarity = [num |-> 280, den |-> 4]
    /\ \E k \in Entries : Less(MeanFor(weights, text, k), max_similarity)

\* the candidate of frame f has been computed
CandidateKnown(f) == f.op = "process_query" /\ f.pc # "similarity"

\* the first entry with the greatest mean similarity to text t
FirstMaximal(w, t) ==
    CHOOSE j \in Entries :
        /\ Maximal(w, t, j)
        /\ \A k \in Entries : Maximal(w, t, k) => j <= k

\* the candidate the claim names, and the one the loop of lines 64-68
\* leaves, per sentence model and text
FirstOfTied ==
    [w \in SentenceModels, t \in TextIds |-> Catalog[FirstMaximal(w, t)].intent]

FirstOfTiedAboveInitial ==
    [w \in SentenceModels, t \in TextIds |->
        IF \E j \in Entries : Less(InitialMax, MeanFor(w, t, j))
        THEN FirstOfTied[w, t]
        ELSE "general_unclear"]

C21_FallbackLabelOverrides ==
    (Classified /\ fallback_calls = 1 /\ pc # "raised")
        => LET ranked == ZeroShot(zs, text, Keys(Catalog))
           IN  /\ ~ranked.raised
               /\ predicted_intent = ranked.labels[1]
               /\ pc \in {"extract", "package", "returned"}
                     => intent = ranked.labels[1]

C21_Witness ==
    /\ op = "process_query"
    /\ pc = "classified"
    /\ fallback_calls = 1
    /\ predicted_intent # candidate
    /\ candidate # "general_unclear"

\* the steps of one process_query call, in the order of lines 59-68
\* (similarity), 73-75 (threshold test and fallback), 79 and 138 (return of
\* classify_intent), 139 (extraction), 141-145 (packaging)
ProcessQueryOrder ==
    {<<"similarity", "threshold">>, <<"threshold", "classified">>,
     <<"threshold", "raised">>, <<"classified", "extract">>,
     <<"extract", "package">>, <<"extract", "raised">>,
     <<"package", "returned">>}

\* C22: within one process_query call the steps happen in the order
\* similarity classification, fallback (only if below the threshold),
\* extraction, packaging; similarity and extraction run once, the fallback at
\* most once; a call starts from fresh locals, with nothing kept from an
\* earlier call.
C22_StepsInOrderOnce ==
    [][/\ (op = "none" /\ op' = "process_query")
             => /\ pc' = "similarity"
                /\ fallback_calls' = 0
                /\ candidate' = ""
                /\ predicted_intent' = ""
                /\ intent' = ""
                /\ entities' = EmptyMap
                /\ result' = NoResult
       /\ (op = "process_query" /\ op' = "process_query")
             => /\ <<pc, pc'>> \in ProcessQueryOrder
                /\ text' = text
                /\ fallback_calls'
                      = IF pc = "threshold" /\ BelowThreshold(max_similarity)
                        THEN fallback_calls + 1 ELSE fallback_calls
                /\ fallback_calls' <= 1
                /\ (pc = "threshold" /\ pc' = "raised")
                      => BelowThreshold(max_similarity)
                /\ pc # "extract" => entities' = entities
                /\ pc # "package" => result' = result
      ]_vars

C22_Witness ==
    /\ op = "process_query"
    /\ pc = "returned"
    /\ fallback_calls = 1
    /\ result.intent = "create_reminder"
    /\ "duration" \in DOMAIN result.entities

\* entity j of ents is of class GPE, LOC, ORG or FAC
Qualifies(ents, j) == ents[j].label_ \in location_labels

\* C23: for find_location or get_directions, if the parse has an entity of
\* class GPE, LOC, ORG or FAC, location is the text of the first such entity
\* in document order; later ones and the keyword fallback are ignored.
C23_FirstLocationEntityWins ==
    LET ents == Ents(ner, Texts[text])
    IN  (ExtractedFor("find_location") \/ ExtractedFor("get_directions"))
            => \A j \in 1..Len(ents) :
                  (/\ Qualifies(ents, j)
                   /\ \A k \in 1..(j - 1) : ~Qualifies(ents, k))
                      => entities = [x \in {"location"} |-> ents[j].text]

\* an entity was skipped, the next one taken, a later qualifying one and the
\* keyword token "Hall" ignored
C23_Witness ==
    LET ents == Ents(ner, Texts[text])
    IN  /\ ExtractedFor("get_directions")
        /\ Len(ents) = 3
        /\ ~Qualifies(ents, 1)
        /\ Qualifies(ents, 2)
        /\ Qualifies(ents, 3)
        /\ entities["location"] = <<"M", "a", "i", "n", " ", "H", "a", "l", "l">>

\* the greatest element of a non-empty set of numbers
Last(S) == CHOOSE i \in S : \A k \in S : i >= k

\* the tokens of doc that, lower-cased, contain "tomorrow" or "today"
DateTokens(doc) ==
    {i \in 1..Len(doc) : \/ Occurs(Lower(doc[i].text), StrTomorrow)
                         \/ Occurs(Lower(doc[i].text), StrToday)}

\* C24: for create_reminder, date is present exactly when some token,
\* lower-cased, contains "tomorrow" or "today"; when both words occur in
\* different tokens the value is the word of the token that comes last.
C24_LastDateWordWins ==
    LET doc == Doc(Texts[text])
        at  == DateTokens(doc)
    IN  ExtractedFor("create_reminder")
            => /\ ("date" \in DOMAIN entities) <=> (at # {})
               /\ at # {}
                    => entities["date"]
                          = IF Occurs(Lower(doc[Last(at)].text), StrToday)
                            THEN StrToday ELSE StrTomorrow

\* "today" in an earlier token, "tomorrow" in the last one
C24_Witness ==
    LET doc == Doc(Texts[text])
    IN  /\ ExtractedFor("create_reminder")
        /\ \E i, j \in DateTokens(doc) :
              /\ i < j
              /\ Occurs(Lower(doc[i].text), StrToday)
              /\ Occurs(Lower(doc[j].text), StrTomorrow)
        /\ entities["date"] = StrTomorrow

\* the number-like tokens of doc followed by a token containing "hour" or
\* "min"
DurationTokens(doc) ==
    {i \in 1..(Len(doc) - 1) :
        /\ LikeNum(doc[i])
        /\ Occurs(doc[i + 1].text, StrHour) \/ Occurs(doc[i + 1].text, StrMin)}

\* C25: for create_reminder, duration is present exactly when some
\* number-like token is immediately followed by a token containing "hour" or
\* "min"; its value is "<number token> <following token>" of the last such
\* pair in the text.
C25_LastDurationPairWins ==
    LET doc == Doc(Texts[text])
        at  == DurationTokens(doc)
    IN  ExtractedFor("create_reminder")
            => /\ ("duration" \in DOMAIN entities) <=> (at # {})
               /\ at # {}
                    => entities["duration"]
                          = doc[Last(at)].text \o <<" ">>
                               \o doc[Last(at) + 1].text

\* "5 min" earlier in the text, "2 hours" later
C25_Witness ==
    /\ ExtractedFor("create_reminder")
    /\ Texts[text] = TxtNap
    /\ entities["duration"] = <<"2", " ", "h", "o", "u", "r", "s">>

\* C26: after initialization no sequence of classify_intent,
\* extract_entities and process_query calls modifies self.intents or
\* self.intent_embeddings; both stay as __init__ left them.
C26_CatalogAndTableNeverChange ==
    /\ intents = Catalog
    /\ intent_embeddings = EmbeddingTable(Catalog)

\* a call that read the table, the catalog keys and the parser has returned
C26_Witness ==
    /\ op = "process_query"
    /\ pc = "returned"
    /\ fallback_calls = 1
    /\ result.intent = "find_location"
    /\ result.entities # EmptyMap
    /\ intents = Catalog
    /\ intent_embeddings = EmbeddingTable(Catalog)

\* C27: in handle_message, for intent find_location or get_directions with
\* no location in the entity map, a prompt asking for a place is sent and
\* the location/directions handler is not called; with a location present
\* the handler is called with context.args = [location].
C27_MissingLocationIsPrompted ==
    (handler.pc = "done" /\ handler.intent \in {"find_location", "get_directions"})
        => IF "location" \in DOMAIN handler.entities
           THEN /\ handler.delegate
                      = IF handler.intent = "find_location"
                        THEN "handle_find_location" ELSE "handle_directions"
                /\ handler.args = <<handler.entities["location"]>>
                /\ handler.replies = 0
           ELSE /\ handler.delegate = ""
                /\ handler.args = << >>
                /\ handler.replies = 1
                /\ handler.response_text
                      = IF handler.intent = "find_location"
                        THEN "I can help you find locations on campus."
                        ELSE "I can give you directions on campus."

C27_Witness ==
    /\ handler.pc = "done"
    /\ handler.intent = "get_directions"
    /\ "location" \notin DOMAIN handler.entities
    /\ handler.replies = 1
    /\ handler.delegate = ""

\* C29: each handle_message invocation that completes either delegates to
\* one calendar/location handler and sends no reply of its own (get_events,
\* find_location or get_directions with a location), or sends exactly one
\* reply with a non-empty text; this holds for every intent value.
C29_OneResponsePath ==
    handler.pc = "done"
        => \/ /\ handler.delegate
                    \in {"handle_calendar_events", "handle_find_location",
                         "handle_directions"}
              /\ handler.replies = 0
              /\ \/ handler.intent = "get_events"
                 \/ /\ handler.intent \in {"find_location", "get_directions"}
                    /\ "location" \in DOMAIN handler.entities
           \/ /\ handler.delegate = ""
              /\ handler.replies = 1
              /\ handler.response_text # ""
              /\ handler.intent # "get_events"

\* an intent that neither the catalog nor the if/elif chain knows
C29_Witness ==
    /\ handler.pc = "done"
    /\ handler.intent = "tell_joke"
    /\ handler.replies = 1
    /\ handler.response_text = "I received your message:"

\* C28: create_event and get_directions are not catalog keys, so
\* process_query never returns either as intent and every entity map it
\* returns has keys among location, duration, date and reminder_text; the
\* keys title, time and description come only from a direct call of
\* extract_entities with intent create_event.
C28_EventKeysOnlyByDirectCall ==
    /\ (op = "process_query" /\ pc = "returned")
          => /\ result.intent \notin {"create_event", "get_directions"}
             /\ DOMAIN result.entities
                   \subseteq {"location", "duration", "date", "reminder_text"}
    /\ (DOMAIN entities \cap {"title", "time", "description"} # {})
          => (op = "extract_entities" /\ intent = "create_event")

\* process_query returned for a text that carries event markers
C28_Witness ==
    /\ op = "process_query"
    /\ pc = "returned"
    /\ Occurs(result.original_text, MarkTime)
    /\ result.intent = "create_reminder"
    /\ DOMAIN result.entities = {"reminder_text"}

\* C30: after any sequence or interleaving of /start commands the users
\* table has at most one row per telegram_id; a row is inserted only by a
\* handler whose get_user found none, and an insert for a telegram_id that
\* already has a row is rejected: add_user returns None and the table is
\* unchanged.
C30_OneRowPerTelegramId ==
    /\ [](\A a, b \in 1..Len(users) :
             users[a].telegram_id = users[b].telegram_id => a = b)
    /\ [][\A h \in StartHandlers :
             (starts[h].pc = "checked" /\ starts'[h].pc = "welcome")
                => IF starts[h].user_exists
                      \/ SelectUser(users, starts[h].user_telegram_id) # << >>
                   THEN users' = users /\ starts'[h].lastrowid = 0
                   ELSE /\ Len(users') = Len(users) + 1
                        /\ users'[Len(users')].telegram_id
                              = starts[h].user_telegram_id
                        /\ starts'[h].lastrowid = Len(users')]_vars
    /\ [][users' # users
             => \E h \in StartHandlers :
                   /\ starts[h].pc = "checked"
                   /\ ~starts[h].user_exists
                   /\ starts'[h].pc = "welcome"]_vars

\* two handlers of the same user both found no row; one inserted it, the
\* other's insert was rejected
C30_Witness ==
    \E g, h \in StartHandlers :
        /\ g # h
        /\ starts[g].pc = "welcome"
        /\ starts[h].pc = "welcome"
        /\ starts[g].user_telegram_id = starts[h].user_telegram_id
        /\ ~starts[g].user_exists
        /\ ~starts[h].user_exists
        /\ starts[g].lastrowid > 0
        /\ starts[h].lastrowid = 0
        /\ Len(SelectUser(users, starts[h].user_telegram_id)) = 1

====
